---- MODULE Spec2Model ----
(***************************************************************************)
(* Verification model of the outcome gate of ai-money-printer:              *)
(*   core/safety.py   SafetyLayer.validate_code / dry_run / get_green_light *)
(*                    ContentSafetyChecker.check_content / green light      *)
(*   main.py          process_fix, process_multi_agent_request              *)
(*   core/brain.py    check_outcome_success                                 *)
(*   tools/database_fixer.py, tools/billing.py  (apply_fix, log_success)    *)
(*                                                                          *)
(* Code text is modelled as a sequence of whitespace-separated tokens; the  *)
(* regular expressions of the block lists are evaluated on that sequence.   *)
(***************************************************************************)
EXTENDS Integers, Sequences, FiniteSets, TLC

VARIABLES
    reqs,        \* background tasks: request id -> task record (position + locals)
    loopBlocked, \* TRUE once a synchronous call never returns on the event loop
    arg,         \* arguments of the function under test in the function harnesses
    valRet,      \* outcome of validate_code in the harness
    dryRet,      \* outcome of dry_run in the harness
    gateRet,     \* outcome of the green-light function in the harness
    contentRet,  \* outcome of check_content in the harness
    calls,       \* dry_run calls in flight: call id -> position and locals
    files,       \* the temp directory: file name -> database stored in it
    http         \* POST /webhook/fix: the response and the BackgroundTasks queue

vars ==
    <<reqs, loopBlocked, arg, valRet, dryRet, gateRet, contentRet, calls,
      files, http>>

(***************************************************************************)
(* Bounds of the model                                                      *)
(***************************************************************************)
MaxStmts ==
    2

MaxReq ==
    1

\* dry_run calls in flight at once
MaxCalls ==
    2

\* phrases of interest in one text handed to check_content
MaxPhrases ==
    2

(***************************************************************************)
(* RiskLevel (safety.py:16-20) and the order used by get_green_light        *)
(***************************************************************************)
RiskLevel ==
    {"low", "medium", "high", "blocked"}

risk_order ==
    <<"low", "medium", "high", "blocked">>

\* list.index(x): position of the first occurrence
RiskIndex(r) ==
    CHOOSE i \in 1..Len(risk_order) :
        /\ risk_order[i] = r
        /\ \A j \in 1..(i-1) : risk_order[j] # r

max_rows_affected ==
    10000

NoRet ==
    [kind |-> "none"]

\* no dry_run call in flight, nothing in the temp directory
NoCalls ==
    <<>>

NoFiles ==
    <<>>

\* no request handled yet, nothing queued on BackgroundTasks
NoHttp ==
    [response |-> [status |-> 0, body |-> "none"], background_tasks |-> <<>>]

(***************************************************************************)
(* Code text.  A token is a maximal run of non-blank characters, except     *)
(* that ";" is always a token of its own.                                   *)
(***************************************************************************)
SqlTokens ==
    {"DROP", "TABLE", "DATABASE", "INDEX", "IF", "EXISTS", "TRUNCATE",
     "DELETE", "FROM", "UPDATE", "update", "SET", "set", "WHERE", "ALTER",
     "ADD", "USER", "GRANT", "ALL", "CREATE", "SELECT", "--", ";",
     "users", "logs", "idx", "col", "bob", "id", "deleted_at",
     "active=1", "id=5"}

ScriptTokens ==
    {"x=1", "len('a')", "cursor.execute(sql)", "print(x)", "import os",
     "open('f')", "open('f','w')", "os.system(c)", "subprocess.run(c)",
     "eval(s)", "exec(s)", "__import__('os')", "requests.delete(u)",
     "shutil.rmtree(p)", "os.remove(p)", "os.unlink(p)", "while True: pass",
     "cursor.execute(attach_live)", "cursor.execute(delete_live)",
     "cursor.execute(create_t)", "cursor.execute(insert_t)",
     "raise base_exception",
     "().__class__.__base__.__subclasses__()[k].__init__.__globals__['system'](c)"}

\* str.upper() / re.IGNORECASE, token by token
Upper(t) ==
    CASE t = "update"     -> "UPDATE"
      [] t = "set"        -> "SET"
      [] t = "users"      -> "USERS"
      [] t = "logs"       -> "LOGS"
      [] t = "idx"        -> "IDX"
      [] t = "col"        -> "COL"
      [] t = "bob"        -> "BOB"
      [] t = "id"         -> "ID"
      [] t = "deleted_at" -> "DELETED_AT"
      [] t = "active=1"   -> "ACTIVE=1"
      [] t = "id=5"       -> "ID=5"
      [] t = "requests.delete(u)" -> "REQUESTS.DELETE(U)"
      [] OTHER            -> t

\* upper-cased tokens and the keywords that occur inside them
SubstringPairs ==
    {<<"DELETED_AT", "DELETE">>, <<"USERS", "USER">>,
     <<"REQUESTS.DELETE(U)", "DELETE">>}

PrefixPairs ==
    {<<"DELETED_AT", "DELETE">>, <<"USERS", "USER">>}

\* kw in T  (Python substring test on one upper-cased token)
IsSubstr(kw, T) ==
    kw = T \/ <<T, kw>> \in SubstringPairs

\* the token T begins with kw (a pattern without trailing \b)
StartsWith(T, kw) ==
    kw = T \/ <<T, kw>> \in PrefixPairs

\* \w+ matches the whole token
IsWord(t) ==
    t \in {"DROP", "TABLE", "DATABASE", "INDEX", "IF", "EXISTS", "TRUNCATE",
           "DELETE", "FROM", "UPDATE", "update", "SET", "set", "WHERE",
           "ALTER", "ADD", "USER", "GRANT", "ALL", "CREATE", "SELECT",
           "users", "logs", "idx", "col", "bob", "id", "deleted_at"}

\* upper-cased token at position i, "" past the end
U(code, i) ==
    IF i \in 1..Len(code) THEN Upper(code[i]) ELSE ""

\* "KW" in code_upper
InUpper(kw, code) ==
    \E i \in 1..Len(code) : IsSubstr(kw, Upper(code[i]))

(***************************************************************************)
(* SafetyLayer.BLOCKED_PATTERNS / BLOCKED_PYTHON_PATTERNS (safety.py:43-68) *)
(* Each entry is named; re_search gives the outcome of                      *)
(* re.search(pattern, code, re.IGNORECASE | re.DOTALL).                     *)
(***************************************************************************)
BLOCKED_PATTERNS ==
    <<"DROP_DATABASE", "DROP_TABLE", "TRUNCATE_TABLE", "DELETE_FROM",
      "UPDATE_SET", "COMMENT_DROP", "SEMI_DROP", "GRANT_ALL", "CREATE_USER",
      "ALTER_USER">>

BLOCKED_PYTHON_PATTERNS ==
    <<"os.system", "subprocess", "eval", "exec", "__import__", "open_w",
      "requests.delete", "shutil.rmtree", "os.remove", "os.unlink">>

\* two adjacent tokens  A\s+B  (B without trailing \b when prefix = TRUE)
Adjacent(code, a, b, prefix) ==
    \E i \in 1..Len(code) :
        /\ U(code, i) = a
        /\ IF prefix THEN StartsWith(U(code, i+1), b) ELSE U(code, i+1) = b

\* the script line that a pattern of BLOCKED_PYTHON_PATTERNS matches
PythonPatternLine(p) ==
    CASE p = "os.system"       -> "os.system(c)"
      [] p = "subprocess"      -> "subprocess.run(c)"
      [] p = "eval"            -> "eval(s)"
      [] p = "exec"            -> "exec(s)"
      [] p = "__import__"      -> "__import__('os')"
      [] p = "open_w"          -> "open('f','w')"
      [] p = "requests.delete" -> "requests.delete(u)"
      [] p = "shutil.rmtree"   -> "shutil.rmtree(p)"
      [] p = "os.remove"       -> "os.remove(p)"
      [] p = "os.unlink"       -> "os.unlink(p)"

\* does the compiled pattern match somewhere in the text
PatternMatches(p, code) ==
    CASE p = "DROP_DATABASE"  -> Adjacent(code, "DROP", "DATABASE", FALSE)
      [] p = "DROP_TABLE"     ->
            \* \bDROP\s+TABLE\b(?!\s+IF\s+EXISTS)
            \E i \in 1..Len(code) :
                /\ U(code, i) = "DROP"
                /\ U(code, i+1) = "TABLE"
                /\ ~(U(code, i+2) = "IF" /\ StartsWith(U(code, i+3), "EXISTS"))
      [] p = "TRUNCATE_TABLE" -> Adjacent(code, "TRUNCATE", "TABLE", FALSE)
      [] p = "DELETE_FROM"    ->
            \* \bDELETE\s+FROM\s+\w+\s*;
            \E i \in 1..Len(code) :
                /\ U(code, i) = "DELETE"
                /\ U(code, i+1) = "FROM"
                /\ i+2 <= Len(code) /\ IsWord(code[i+2])
                /\ U(code, i+3) = ";"
      [] p = "COMMENT_DROP"   ->
            \* --.*DROP
            \E i \in 1..Len(code) : \E j \in (i+1)..Len(code) :
                code[i] = "--" /\ IsSubstr("DROP", U(code, j))
      [] p = "SEMI_DROP"      -> Adjacent(code, ";", "DROP", TRUE)
      [] p = "GRANT_ALL"      -> Adjacent(code, "GRANT", "ALL", TRUE)
      [] p = "CREATE_USER"    -> Adjacent(code, "CREATE", "USER", TRUE)
      [] p = "ALTER_USER"     -> Adjacent(code, "ALTER", "USER", TRUE)
      [] p = "UPDATE_SET"     -> FALSE  \* never evaluated: does not compile
      [] OTHER                ->
            \E i \in 1..Len(code) : code[i] = PythonPatternLine(p)

\* the pattern the re module refuses to compile: the look-behind
\* (?<!WHERE\s+.{1,100}) of the UPDATE entry is not fixed-width, so
\* re.search raises re.error before any matching is done
CompileFails(p) ==
    p = "UPDATE_SET"

re_search(p, code) ==
    IF CompileFails(p) THEN "error"
    ELSE IF PatternMatches(p, code) THEN "match"
    ELSE "nomatch"

\* the loop  for pattern in patterns: if re.search(...): return ...
RECURSIVE ScanPatterns(_, _, _)
ScanPatterns(patterns, code, k) ==
    IF k > Len(patterns) THEN [kind |-> "nomatch"]
    ELSE LET o == re_search(patterns[k], code)
         IN  IF o = "error" THEN [kind |-> "raise", exc |-> "re.error"]
             ELSE IF o = "match" THEN [kind |-> "match", pattern |-> patterns[k]]
             ELSE ScanPatterns(patterns, code, k + 1)

\* the risk indicators of lines 92-102, in program order; the UPDATE test
\* between DELETE and DROP returns early
RiskIndicators(code) ==
    LET r0 == "low"
        r1 == IF InUpper("DELETE", code) THEN "medium" ELSE r0
        r2 == IF InUpper("DROP", code) THEN "high" ELSE r1
        r3 == IF InUpper("ALTER", code) THEN "medium" ELSE r2
    IN  IF InUpper("UPDATE", code) /\ ~InUpper("WHERE", code)
        THEN [kind |-> "return", safe |-> FALSE,
              message |-> "UPDATE without WHERE clause", risk |-> "blocked"]
        ELSE [kind |-> "return", safe |-> TRUE,
              message |-> "Code passed static analysis", risk |-> r3]

\* variant: the kind is compared without regard to case
validate_code_casefold(code, fix_type) ==
    LET patterns == IF fix_type \in {"sql", "SQL"} THEN BLOCKED_PATTERNS
                    ELSE BLOCKED_PYTHON_PATTERNS
        scan == ScanPatterns(patterns, code, 1)
    IN  IF scan.kind = "raise" THEN scan
        ELSE IF scan.kind = "match"
        THEN [kind |-> "return", safe |-> FALSE,
              message |-> "Blocked pattern detected", risk |-> "blocked"]
        ELSE IF fix_type \in {"sql", "SQL"} THEN RiskIndicators(code)
        ELSE [kind |-> "return", safe |-> TRUE,
              message |-> "Code passed static analysis", risk |-> "low"]

\* SafetyLayer.validate_code(code, fix_type)
validate_code(code, fix_type) ==
    LET patterns == IF fix_type = "sql" THEN BLOCKED_PATTERNS
                    ELSE BLOCKED_PYTHON_PATTERNS
        scan == ScanPatterns(patterns, code, 1)
    IN  IF scan.kind = "raise" THEN scan
        ELSE IF scan.kind = "match"
        THEN [kind |-> "return", safe |-> FALSE,
              message |-> "Blocked pattern detected", risk |-> "blocked"]
        ELSE IF fix_type = "sql" THEN RiskIndicators(code)
        ELSE [kind |-> "return", safe |-> TRUE,
              message |-> "Code passed static analysis", risk |-> "low"]

\* variant: the passed flag is not consulted
get_green_light_ignoring_passed(dry_run_result, risk_tolerance) ==
    RiskIndex(dry_run_result.risk_level) <= RiskIndex(risk_tolerance)

\* variant: the comparison with the tolerance is strict
get_green_light_strict(dry_run_result, risk_tolerance) ==
    IF ~dry_run_result.passed THEN FALSE
    ELSE RiskIndex(dry_run_result.risk_level) < RiskIndex(risk_tolerance)

\* SafetyLayer.get_green_light(dry_run_result, risk_tolerance)
get_green_light(dry_run_result, risk_tolerance) ==
    IF ~dry_run_result.passed THEN FALSE
    ELSE RiskIndex(dry_run_result.risk_level) <= RiskIndex(risk_tolerance)

(***************************************************************************)
(* SafetyLayer.dry_run (safety.py:106-235).                                 *)
(* env is what the sandbox meets when it runs:                              *)
(*   tmp      "ok" | "err"   NamedTemporaryFile succeeds / raises OSError   *)
(*   connect  "ok" | "err"   sqlite3.connect succeeds / raises              *)
(*   schema   "none" | "ok" | "err"   schema_sql absent / accepted / raises *)
(*   rowcount cursor.rowcount after each statement                          *)
(*   failAt   index of the statement at which the cursor raises, 0 = none   *)
(* The outcome records the SafetyResult or the exception, and what is left  *)
(* of the temporary file and the connection when the call is over.          *)
(***************************************************************************)
SafetyResult(passed, risk_level, message, rows_affected, verification_passed) ==
    [passed |-> passed, risk_level |-> risk_level, message |-> message,
     rows_affected |-> rows_affected,
     verification_passed |-> verification_passed]

\* statements = [s.strip() for s in code.split(";") if s.strip()]
RECURSIVE SplitStatements(_, _)
SplitStatements(code, cur) ==
    IF Len(code) = 0
    THEN IF Len(cur) = 0 THEN <<>> ELSE <<cur>>
    ELSE IF Head(code) = ";"
         THEN (IF Len(cur) = 0 THEN <<>> ELSE <<cur>>)
              \o SplitStatements(Tail(code), <<>>)
         ELSE SplitStatements(Tail(code), Append(cur, Head(code)))

\* the loop over the statements: cursor.execute(stmt), then
\* rows_affected += cursor.rowcount if cursor.rowcount > 0 else 0
RECURSIVE RunStatements(_, _, _, _)
RunStatements(n, k, rows, env) ==
    IF k > n THEN [raised |-> FALSE, rows |-> rows, executed |-> n]
    ELSE IF env.failAt = k
         THEN [raised |-> TRUE, rows |-> rows, executed |-> k - 1]
         ELSE RunStatements(n, k + 1,
                  rows + (IF env.rowcount > 0 THEN env.rowcount ELSE 0), env)

\* what the sandbox has done so far: lines run, rows changed in the
\* temporary database, whether that database has the table t, whether
\* another database file is attached to the
\* connection, whether a file other than the temporary one was written,
\* whether something that is neither in restricted_globals nor reached
\* through conn or cursor was called
NoEffect ==
    [executed |-> 0, changed |-> 0, table |-> FALSE, attached |-> FALSE,
     persistent |-> FALSE, outside |-> FALSE, exc |-> ""]

\* one line of a script under the restricted globals: status is "ok",
\* "raise" (an Exception), "raise_base" (a BaseException that is not an
\* Exception) or "hang"; conn and cursor are the sandbox connection
RunLine(line, k, st, env) ==
    LET done == [st EXCEPT !.executed = @ + 1]
    IN
    CASE line \in {"x=1", "len('a')"} -> [status |-> "ok", effect |-> done]
      [] line = "cursor.execute(sql)" ->
            IF env.failAt = k
            THEN [status |-> "raise",
                  effect |-> [st EXCEPT !.exc = "no such table: users"]]
            ELSE [status |-> "ok",
                  effect |-> [done EXCEPT !.changed =
                      @ + (IF env.rowcount > 0 THEN env.rowcount ELSE 0)]]
      [] line = "cursor.execute(create_t)" ->
            IF st.table
            THEN [status |-> "raise",
                  effect |-> [st EXCEPT !.exc = "table t already exists"]]
            ELSE [status |-> "ok", effect |-> [done EXCEPT !.table = TRUE]]
      [] line = "cursor.execute(insert_t)" ->
            IF st.table
            THEN [status |-> "ok", effect |-> [done EXCEPT !.changed = @ + 1]]
            ELSE [status |-> "raise",
                  effect |-> [st EXCEPT !.exc = "no such table: t"]]
      [] line = "cursor.execute(attach_live)" ->
            [status |-> "ok", effect |-> [done EXCEPT !.attached = TRUE]]
      [] line = "cursor.execute(delete_live)" ->
            IF st.attached
            THEN [status |-> "ok", effect |-> [done EXCEPT !.persistent = TRUE]]
            ELSE [status |-> "raise",
                  effect |-> [st EXCEPT !.exc = "no such table: live.clients"]]
      [] line = "().__class__.__base__.__subclasses__()[k].__init__.__globals__['system'](c)" ->
            \* every loaded class is reachable from the type of a literal,
            \* and os.system from the globals of os._wrap_close.__init__
            [status |-> "ok", effect |-> [done EXCEPT !.outside = TRUE]]
      [] line = "import os" ->
            [status |-> "raise",
             effect |-> [st EXCEPT !.exc = "__import__ not found"]]
      [] line = "while True: pass" -> [status |-> "hang", effect |-> st]
      [] line = "raise base_exception" ->
            [status |-> "raise_base",
             effect |-> [st EXCEPT !.exc = "BaseException"]]
      [] OTHER ->   \* a name the restricted globals do not define
            [status |-> "raise",
             effect |-> [st EXCEPT !.exc = "name is not defined"]]

RECURSIVE RunScript(_, _, _, _)
RunScript(code, k, st, env) ==
    IF k > Len(code) THEN [status |-> "ok", effect |-> st]
    ELSE LET o == RunLine(code[k], k, st, env)
         IN  IF o.status = "ok" THEN RunScript(code, k + 1, o.effect, env)
             ELSE o

\* exec(code, restricted_globals): text that is not Python does not compile
exec(code, env) ==
    IF \E i \in 1..Len(code) : code[i] \notin ScriptTokens
    THEN [status |-> "raise",
          effect |-> [NoEffect EXCEPT !.exc = "invalid syntax"]]
    ELSE RunScript(code, 1, NoEffect, env)

Outcome(kind, result, sandbox, tmp, conn, effect) ==
    [kind |-> kind, result |-> result, sandbox |-> sandbox,
     tmp |-> tmp, conn |-> conn, effect |-> effect]

NoResult ==
    [passed |-> FALSE, risk_level |-> "none", message |-> "none",
     rows_affected |-> 0, verification_passed |-> FALSE]

\* f"Dry run failed: {str(e)}"
FailureMessage(exc) ==
    CASE exc = "unable to open database file" ->
            "Dry run failed: unable to open database file"
      [] exc = "syntax error" -> "Dry run failed: syntax error"
      [] exc = "no such table: users" -> "Dry run failed: no such table: users"
      [] exc = "no such table: live.clients" ->
            "Dry run failed: no such table: live.clients"
      [] exc = "name is not defined" -> "Dry run failed: name is not defined"
      [] exc = "table t already exists" ->
            "Dry run failed: table t already exists"
      [] exc = "no such table: t" -> "Dry run failed: no such table: t"
      [] exc = "invalid syntax" -> "Dry run failed: invalid syntax"
      [] exc = "__import__ not found" -> "Dry run failed: __import__ not found"
      [] OTHER -> "Dry run failed: "

\* except Exception as e: return SafetyResult(passed=False, HIGH, ...)
Failed(exc) ==
    SafetyResult(FALSE, "high", FailureMessage(exc), 0, FALSE)

\* variant: the static verdict only labels the report
StaticRejection_as_label(v) ==
    Outcome("return", SafetyResult(TRUE, v.risk, v.message, 0, FALSE),
            "not_run", "none", "none", NoEffect)

\* variant: the sandbox is set up and torn down before the static check
StaticRejection_after_setup(v) ==
    Outcome("return", SafetyResult(FALSE, v.risk, v.message, 0, FALSE),
            "not_run", "removed", "closed", NoEffect)

\* if not is_safe: return SafetyResult(passed=False, risk_level, message)
StaticRejection(v) ==
    Outcome("return", SafetyResult(FALSE, v.risk, v.message, 0, FALSE),
            "not_run", "none", "none", NoEffect)

\* variant: the rows the script changed are counted and capped
ScriptOutcome_capped(v, o) ==
    IF o.status = "hang"
    THEN Outcome("hang", NoResult, "hang", "left", "open", o.effect)
    ELSE IF o.status = "raise_base"
    THEN Outcome("raise", NoResult, "raised", "removed", "closed", o.effect)
    ELSE IF o.status = "raise"
    THEN Outcome("return", Failed(o.effect.exc), "raised", "removed",
                 "closed", o.effect)
    ELSE IF o.effect.changed > max_rows_affected
    THEN Outcome("return",
                 SafetyResult(FALSE, "high", "Too many rows affected",
                              o.effect.changed, FALSE),
                 "cap", "removed", "closed", o.effect)
    ELSE Outcome("return",
                 SafetyResult(TRUE, v.risk,
                              "Python code executed successfully in sandbox",
                              o.effect.changed, TRUE),
                 "ok", "removed", "closed", o.effect)

\* how the call ends once exec(code, restricted_globals) has ended as o
ScriptOutcome(v, o) ==
    IF o.status = "hang"
    THEN Outcome("hang", NoResult, "hang", "left", "open", o.effect)
    ELSE IF o.status = "raise_base"
    THEN \* not an Exception: the handler is passed over, finally runs
         Outcome("raise", NoResult, "raised", "removed", "closed", o.effect)
    ELSE IF o.status = "raise"
    THEN Outcome("return", Failed(o.effect.exc), "raised", "removed",
                 "closed", o.effect)
    ELSE Outcome("return",
                 SafetyResult(TRUE, v.risk,
                              "Python code executed successfully in sandbox",
                              0, TRUE),
                 "ok", "removed", "closed", o.effect)

dry_run(code, fix_type, env) ==
    LET v == validate_code(code, fix_type)
    IN
    IF v.kind = "raise"
    THEN Outcome("raise", NoResult, "not_run", "none", "none", NoEffect)
    ELSE IF ~v.safe
    THEN StaticRejection(v)
    ELSE IF env.tmp = "err"
    THEN Outcome("raise", NoResult, "not_run", "none", "none", NoEffect)
    ELSE IF env.connect = "err"
    THEN \* finally: conn.close() fails on the unbound name, unlink is skipped
         Outcome("return", Failed("unable to open database file"),
                 "raised", "left", "none",
                 [NoEffect EXCEPT !.exc = "unable to open database file"])
    ELSE IF env.schema = "err"
    THEN Outcome("return", Failed("syntax error"), "raised", "removed",
                 "closed", [NoEffect EXCEPT !.exc = "syntax error"])
    ELSE IF fix_type = "sql"
    THEN LET statements == SplitStatements(code, <<>>)
             run == RunStatements(Len(statements), 1, 0, env)
             effect == [NoEffect EXCEPT !.executed = run.executed,
                                        !.changed = run.rows]
         IN  IF run.raised
             THEN Outcome("return", Failed("no such table: users"), "raised",
                          "removed", "closed",
                          [effect EXCEPT !.exc = "no such table: users"])
             ELSE IF run.rows > max_rows_affected
             THEN Outcome("return",
                          SafetyResult(FALSE, "high", "Too many rows affected",
                                       run.rows, FALSE),
                          "cap", "removed", "closed", effect)
             ELSE Outcome("return",
                          SafetyResult(TRUE, v.risk,
                                       "Dry run completed successfully",
                                       run.rows, FALSE),
                          "ok", "removed", "closed", effect)
    ELSE ScriptOutcome(v, exec(code, env))

(***************************************************************************)
(* Inputs of the function harnesses                                         *)
(***************************************************************************)
SqlStatements ==
    { <<"UPDATE", "users", "SET", "active=1">>,
      <<"UPDATE", "users", "SET", "active=1", "WHERE", "id=5">>,
      <<"update", "users", "set", "active=1">>,
      <<"DELETE", "FROM", "logs">>,
      <<"DELETE", "FROM", "logs", "WHERE", "id=5">>,
      <<"DROP", "TABLE", "users">>,
      <<"DROP", "TABLE", "IF", "EXISTS", "users">>,
      <<"DROP", "DATABASE", "users">>,
      <<"DROP", "INDEX", "idx">>,
      <<"TRUNCATE", "TABLE", "logs">>,
      <<"ALTER", "TABLE", "users", "ADD", "col">>,
      <<"ALTER", "USER", "bob">>,
      <<"SELECT", "id", "FROM", "users", "WHERE", "id=5">>,
      <<"SELECT", "deleted_at", "FROM", "users">>,
      <<"--", "DROP">> }

ScriptLines ==
    {"x=1", "cursor.execute(sql)", "print(x)", "import os",
     "os.system(c)", "eval(s)", "open('f','w')", "while True: pass",
     "cursor.execute(attach_live)", "raise base_exception"}

\* the text of a list of statements, ";" between them and optionally last
RECURSIVE JoinStatements(_, _)
JoinStatements(ss, terminated) ==
    IF Len(ss) = 0 THEN <<>>
    ELSE IF Len(ss) = 1
         THEN ss[1] \o (IF terminated THEN <<";">> ELSE <<>>)
         ELSE ss[1] \o <<";">> \o JoinStatements(Tail(ss), terminated)

SqlCodes ==
    { JoinStatements(ss, t) :
        ss \in UNION {[1..k -> SqlStatements] : k \in 1..MaxStmts},
        t \in BOOLEAN }

ScriptCodes ==
    UNION {[1..k -> ScriptLines] : k \in 1..MaxStmts}

Codes ==
    SqlCodes \cup ScriptCodes

\* the texts on which the sandbox is exercised together with every env
DrySqlStatements ==
    { <<"UPDATE", "users", "SET", "active=1", "WHERE", "id=5">>,
      <<"DELETE", "FROM", "logs">>,
      <<"DROP", "TABLE", "IF", "EXISTS", "users">>,
      <<"SELECT", "id", "FROM", "users", "WHERE", "id=5">> }

DryScriptLines ==
    {"x=1", "cursor.execute(sql)", "eval(s)", "while True: pass",
     "cursor.execute(attach_live)", "cursor.execute(delete_live)",
     "raise base_exception", "print(x)", "import os",
     "().__class__.__base__.__subclasses__()[k].__init__.__globals__['system'](c)"}

DryCodes ==
    { JoinStatements(ss, t) :
        ss \in UNION {[1..k -> DrySqlStatements] : k \in 1..MaxStmts},
        t \in BOOLEAN }
    \cup UNION {[1..k -> DryScriptLines] : k \in 1..MaxStmts}

\* "sql" and "python" are what generate_fix asks for; the value is free text
FixTypes ==
    {"sql", "python", "SQL"}

Rowcounts ==
    {-1, 0, 1, 6000, 10001}

DefaultEnv ==
    [tmp |-> "ok", connect |-> "ok", schema |-> "none", rowcount |-> 0,
     failAt |-> 0]

\* a seeded users table in which the statement finds one matching row
SeededEnv ==
    [tmp |-> "ok", connect |-> "ok", schema |-> "ok", rowcount |-> 1,
     failAt |-> 0]

\* the first step of the set-up that fails ends the call, so a failing
\* step is combined with nothing after it
Envs ==
    { [DefaultEnv EXCEPT !.tmp = "err"],
      [DefaultEnv EXCEPT !.connect = "err"],
      [DefaultEnv EXCEPT !.schema = "err"] }
    \cup [tmp : {"ok"}, connect : {"ok"}, schema : {"none", "ok"},
          rowcount : Rowcounts, failAt : 0..MaxStmts]

\* the sandbox is entered only by code that validate_code returned safe
\* for; for any other code the environment is never consulted
EnvsFor(v) ==
    IF v.kind = "return" /\ v.safe THEN Envs ELSE {DefaultEnv, SeededEnv}

SafetyResults ==
    [passed : BOOLEAN, risk_level : RiskLevel, message : {"m"},
     rows_affected : {0, 1, 10001}, verification_passed : BOOLEAN]

NoArg ==
    [op |-> "none"]

NoFix ==
    [code |-> <<>>, fix_type |-> "none"]

NoOutcome ==
    Outcome("none", NoResult, "not_run", "none", "none", NoEffect)

\* a background task before it is started: position and locals
IdleReq ==
    [pc |-> "idle", task |-> "none", entry |-> "none", agent_type |-> "none",
     fix |-> NoFix, genCount |-> 0,
     dryCount |-> 0, dryArg |-> NoFix, dry |-> NoOutcome,
     green |-> "none",
     applyCount |-> 0, applyArg |-> NoFix, applyOk |-> FALSE,
     reply |-> "none", checked |-> "not_run",
     billed |-> 0, invoiced |-> 0]

IdleReqs ==
    [r \in 1..MaxReq |-> IdleReq]

(***************************************************************************)
(* Harness for validate_code: one call on every code text and kind          *)
(***************************************************************************)
InitValidate ==
    /\ arg \in [op : {"validate_code"}, code : Codes, fix_type : FixTypes]
    /\ valRet = NoRet
    /\ dryRet = NoRet
    /\ gateRet = NoRet
    /\ reqs = IdleReqs
    /\ loopBlocked = FALSE
    /\ contentRet = NoRet
    /\ calls = NoCalls
    /\ files = NoFiles
    /\ http = NoHttp

CallValidate ==
    /\ arg.op = "validate_code"
    /\ valRet = NoRet
    /\ valRet' = validate_code(arg.code, arg.fix_type)
    /\ UNCHANGED <<reqs, loopBlocked, arg, dryRet, gateRet>>
    /\ UNCHANGED <<contentRet, calls, files, http>>

NextValidate ==
    CallValidate

SpecValidate ==
    InitValidate /\ [][NextValidate]_vars

(***************************************************************************)
(* Harness for get_green_light on every SafetyResult and tolerance          *)
(***************************************************************************)
InitGate ==
    /\ arg \in [op : {"get_green_light"}, result : SafetyResults,
                risk_tolerance : RiskLevel]
    /\ valRet = NoRet
    /\ dryRet = NoRet
    /\ gateRet = NoRet
    /\ reqs = IdleReqs
    /\ loopBlocked = FALSE
    /\ contentRet = NoRet
    /\ calls = NoCalls
    /\ files = NoFiles
    /\ http = NoHttp

CallGate ==
    /\ arg.op = "get_green_light"
    /\ gateRet = NoRet
    /\ gateRet' = [kind |-> "return",
                   value |-> get_green_light(arg.result, arg.risk_tolerance)]
    /\ UNCHANGED <<reqs, loopBlocked, arg, valRet, dryRet>>
    /\ UNCHANGED <<contentRet, calls, files, http>>

NextGate ==
    CallGate

SpecGate ==
    InitGate /\ [][NextGate]_vars

(***************************************************************************)
(* Harness for get_green_light(dry_run(code, fix_type, ...), tolerance)     *)
(***************************************************************************)
InitDryRun ==
    /\ arg \in UNION { [op : {"dry_run"}, code : {c}, fix_type : {f},
                         env : EnvsFor(validate_code(c, f))] :
                        c \in DryCodes, f \in FixTypes }
    /\ valRet = NoRet
    /\ dryRet = NoRet
    /\ gateRet = NoRet
    /\ reqs = IdleReqs
    /\ loopBlocked = FALSE
    /\ contentRet = NoRet
    /\ calls = NoCalls
    /\ files = NoFiles
    /\ http = NoHttp

CallDryRun ==
    /\ arg.op = "dry_run"
    /\ dryRet = NoRet
    /\ valRet' = validate_code(arg.code, arg.fix_type)
    /\ dryRet' = dry_run(arg.code, arg.fix_type, arg.env)
    /\ UNCHANGED <<reqs, loopBlocked, arg, gateRet>>
    /\ UNCHANGED <<contentRet, calls, files, http>>

CallGateOnDryRun ==
    /\ arg.op = "dry_run"
    /\ dryRet.kind = "return"
    /\ gateRet = NoRet
    /\ \E risk_tolerance \in RiskLevel :
          gateRet' = [kind |-> "return", risk_tolerance |-> risk_tolerance,
                      value |-> get_green_light(dryRet.result, risk_tolerance)]
    /\ UNCHANGED <<reqs, loopBlocked, arg, valRet, dryRet>>
    /\ UNCHANGED <<contentRet, calls, files, http>>

\* a script that does not terminate: exec goes round its loop once more,
\* from the test ("hang") to the body ("hang_body") and back
ScriptLoops ==
    /\ arg.op = "dry_run"
    /\ dryRet.kind = "hang"
    /\ dryRet' = [dryRet EXCEPT !.sandbox =
                      IF @ = "hang" THEN "hang_body" ELSE "hang"]
    /\ UNCHANGED <<reqs, loopBlocked, arg, valRet, gateRet>>
    /\ UNCHANGED <<contentRet, calls, files, http>>

NextDryRun ==
    \/ CallDryRun
    \/ CallGateOnDryRun
    \/ ScriptLoops

SpecDryRun ==
    InitDryRun /\ [][NextDryRun]_vars

\* dry_run on scripts in a sandbox that sets up: the call is taken up and,
\* where it can return, runs to its return
InitScriptRun ==
    /\ arg \in [op : {"dry_run"},
                code : UNION {[1..k -> DryScriptLines] : k \in 1..MaxStmts},
                fix_type : {"python"}, env : {DefaultEnv, SeededEnv}]
    /\ valRet = NoRet
    /\ dryRet = NoRet
    /\ gateRet = NoRet
    /\ reqs = IdleReqs
    /\ loopBlocked = FALSE
    /\ contentRet = NoRet
    /\ calls = NoCalls
    /\ files = NoFiles
    /\ http = NoHttp

SpecScriptRunFair ==
    InitScriptRun /\ [][NextDryRun]_vars /\ WF_vars(NextDryRun)

(***************************************************************************)
(* Several dry_run calls in flight on the one SafetyLayer (get_safety,      *)
(* safety.py:479-484).  The object holds max_rows_affected and nothing      *)
(* else; every other name of dry_run is local to the call.  The steps of a  *)
(* call are its operations on the temp directory and on its connection,     *)
(* interleaved freely with those of the other calls; the sandbox sets up    *)
(* without failure.  No step is given for the statement loop of the sql     *)
(* branch: validate_code returns safe for no code of fix_type "sql".        *)
(***************************************************************************)
TmpNames ==
    1..MaxCalls

Absent ==
    [exists |-> FALSE, table |-> FALSE]

EmptyDb ==
    [exists |-> TRUE, table |-> FALSE]

ConcurrentFixes ==
    [code : { <<"cursor.execute(create_t)", "cursor.execute(insert_t)">>,
              <<"cursor.execute(insert_t)">>,
              <<"x=1">>,
              <<"eval(s)">> },
     fix_type : {"python"}]
    \cup { [code |-> <<"DELETE", "FROM", "logs", ";">>, fix_type |-> "sql"] }

IdleCall(fix) ==
    [pc |-> "idle", code |-> fix.code, fix_type |-> fix.fix_type,
     v |-> NoRet, path |-> 0, conn |-> 0, k |-> 1, status |-> "ok",
     effect |-> NoEffect, out |-> NoOutcome]

InitConcurrent ==
    /\ calls \in [1..MaxCalls -> {IdleCall(fix) : fix \in ConcurrentFixes}]
    /\ files = [n \in TmpNames |-> Absent]
    /\ http = NoHttp
    /\ reqs = IdleReqs
    /\ loopBlocked = FALSE
    /\ arg = NoArg
    /\ valRet = NoRet
    /\ dryRet = NoRet
    /\ gateRet = NoRet
    /\ contentRet = NoRet

\* is_safe, message, risk_level = self.validate_code(code, fix_type)
\* and the return of the unsafe branch
BeginCall(i) ==
    /\ calls[i].pc = "idle"
    /\ LET v == validate_code(calls[i].code, calls[i].fix_type)
       IN  calls' = [calls EXCEPT
              ![i].v = v,
              ![i].pc = IF v.kind = "return" /\ v.safe THEN "mktemp"
                        ELSE "done",
              ![i].out = IF v.kind = "raise"
                         THEN Outcome("raise", NoResult, "not_run", "none",
                                      "none", NoEffect)
                         ELSE IF ~v.safe THEN StaticRejection(v)
                         ELSE NoOutcome]
    /\ UNCHANGED <<reqs, loopBlocked, arg, valRet, dryRet, gateRet,
                   contentRet, files, http>>

\* variant: every call is given the same file name
FreshNames_reused(fs) ==
    {1}

\* tempfile.NamedTemporaryFile creates its file exclusively: the name it
\* returns is one under which no file exists
FreshNames(fs) ==
    {n \in TmpNames : ~fs[n].exists}

\* with tempfile.NamedTemporaryFile(suffix=".db", delete=False) as tmp
MakeTemp(i) ==
    /\ calls[i].pc = "mktemp"
    /\ \E n \in FreshNames(files) :
          /\ calls' = [calls EXCEPT ![i].path = n, ![i].pc = "connect"]
          /\ files' = [files EXCEPT ![n] = IF @.exists THEN @ ELSE EmptyDb]
    /\ UNCHANGED <<reqs, loopBlocked, arg, valRet, dryRet, gateRet,
                   contentRet, http>>

\* conn = sqlite3.connect(tmp_db_path); cursor = conn.cursor()
Connect(i) ==
    /\ calls[i].pc = "connect"
    /\ calls' = [calls EXCEPT ![i].conn = calls[i].path, ![i].pc = "exec"]
    /\ UNCHANGED <<reqs, loopBlocked, arg, valRet, dryRet, gateRet,
                   contentRet, files, http>>

\* exec(code, restricted_globals), one line: the line acts on the database
\* behind the call's connection
ExecLine(i) ==
    /\ calls[i].pc = "exec"
    /\ calls[i].k <= Len(calls[i].code)
    /\ LET c == calls[i]
           o == RunLine(c.code[c.k], c.k,
                        [c.effect EXCEPT !.table = files[c.conn].table],
                        DefaultEnv)
       IN  /\ calls' = [calls EXCEPT
                  ![i].effect = o.effect,
                  ![i].status = o.status,
                  ![i].k = @ + 1,
                  ![i].pc = IF o.status = "ok" /\ c.k < Len(c.code)
                            THEN "exec" ELSE "finally"]
           /\ files' = [files EXCEPT ![c.conn].table = o.effect.table]
    /\ UNCHANGED <<reqs, loopBlocked, arg, valRet, dryRet, gateRet,
                   contentRet, http>>

\* conn.commit() and the return, the handler, then finally:
\* conn.close(); os.unlink(tmp_db_path)
TearDown(i) ==
    /\ calls[i].pc = "finally"
    /\ calls' = [calls EXCEPT
          ![i].pc = "done",
          ![i].out = ScriptOutcome(calls[i].v,
                        [status |-> calls[i].status,
                         effect |-> calls[i].effect])]
    /\ files' = [files EXCEPT ![calls[i].path] = Absent]
    /\ UNCHANGED <<reqs, loopBlocked, arg, valRet, dryRet, gateRet,
                   contentRet, http>>

NextConcurrent ==
    \E i \in 1..MaxCalls :
        \/ BeginCall(i)
        \/ MakeTemp(i)
        \/ Connect(i)
        \/ ExecLine(i)
        \/ TearDown(i)

SpecConcurrent ==
    InitConcurrent /\ [][NextConcurrent]_vars

(***************************************************************************)
(* ContentSafetyChecker (safety.py:311-471).  A text is the set of the      *)
(* lower-cased phrases that occur in it, its length and the length of its   *)
(* stripped form.  Scores are kept in thousandths.                          *)
(***************************************************************************)
UNIVERSAL_FORBIDDEN ==
    <<"kill yourself", "go die", "i hate you", "you're stupid", "f**k",
      "shit", "damn", "crap", "idiot", "moron">>

PROFESSIONAL_INDICATORS ==
    <<"thank you", "please", "appreciate", "happy to help", "let me know",
      "best regards", "sincerely">>

FRIENDLY_INDICATORS ==
    <<"hey", "awesome", "great", "absolutely", "no problem", "glad to",
      "happy to", "!">>

informal ==
    <<"gonna", "wanna", "gotta", "dunno", "lol", "lmao", "omg", "wtf">>

\* str.lower() of the words and phrases that are not lower case already
Lower(w) ==
    CASE w = "I can't help" -> "i can't help"
      [] w = "ASAP"         -> "asap"
      [] w = "as I mentioned" -> "as i mentioned"
      [] w = "IDIOT"        -> "idiot"
      [] w = "Go Die"       -> "go die"
      [] w = "Please"       -> "please"
      [] OTHER              -> w

\* phrases of a text and the shorter phrases that occur inside them
PhraseSubstrings ==
    {<<"happy to help", "happy to">>, <<"you're stupid", "stupid">>,
     <<"idiotic", "idiot">>,
     <<"thank you, sincerely", "thank you">>,
     <<"thank you, sincerely", "sincerely">>,
     <<"absolutely awesome!", "absolutely">>,
     <<"absolutely awesome!", "awesome">>,
     <<"absolutely awesome!", "!">>}

\* variant: the text is searched as written
Occurs_as_written(word, content) ==
    \E q \in content.phrases : q = word \/ <<q, word>> \in PhraseSubstrings

\* word in content_lower, where content_lower = content.lower()
Occurs(word, content) ==
    \E q \in content.phrases :
        Lower(q) = word \/ <<Lower(q), word>> \in PhraseSubstrings

\* sum(1 for x in list if x in content_lower)
CountOccurring(list, content) ==
    Cardinality({i \in 1..Len(list) : Occurs(list[i], content)})

Min(a, b) ==
    IF a <= b THEN a ELSE b

Max(a, b) ==
    IF a >= b THEN a ELSE b

\* variant: the share of the indicators that were found
calculate_tone_score_share(content, required_tone) ==
    LET indicators == IF required_tone = "professional"
                      THEN PROFESSIONAL_INDICATORS
                      ELSE FRIENDLY_INDICATORS
        matches == CountOccurring(indicators, content)
    IN  (matches * 1000) \div Len(indicators)

\* min(1.0, matches / max(3, len(indicators) * 0.3)), in thousandths
calculate_tone_score(content, required_tone) ==
    LET indicators == IF required_tone = "professional"
                      THEN PROFESSIONAL_INDICATORS
                      ELSE FRIENDLY_INDICATORS
        matches == CountOccurring(indicators, content)
    IN  Min(1000, (matches * 10000) \div Max(30, Len(indicators) * 3))

\* variant: the score is not clipped
calculate_professionalism_score_unclipped(content) ==
    LET positive == CountOccurring(PROFESSIONAL_INDICATORS, content)
        negative == CountOccurring(informal, content)
    IN  500 + positive * 200 - negative * 300

\* max(0.0, min(1.0, 0.5 + positive * 0.2 - negative * 0.3)), in thousandths
calculate_professionalism_score(content) ==
    LET positive == CountOccurring(PROFESSIONAL_INDICATORS, content)
        negative == CountOccurring(informal, content)
    IN  Max(0, Min(1000, 500 + positive * 200 - negative * 300))

\* the issues of one forbidden list, in list order
RECURSIVE ForbiddenIssues(_, _, _, _)
ForbiddenIssues(list, k, content, label) ==
    IF k > Len(list) THEN <<>>
    ELSE (IF Occurs(Lower(list[k]), content)
          THEN <<[issue |-> label, word |-> list[k]]>> ELSE <<>>)
         \o ForbiddenIssues(list, k + 1, content, label)

\* variant: the length of the text is not limited
check_content_unbounded(content, forbidden_words, required_tone, max_length) ==
    LET tone_score == calculate_tone_score(content, required_tone)
        prof_score == calculate_professionalism_score(content)
        issues ==
            ForbiddenIssues(UNIVERSAL_FORBIDDEN, 1, content, "Forbidden word detected")
            \o ForbiddenIssues(forbidden_words, 1, content, "Client-forbidden word")
            \o (IF content.stripped < 10
                THEN <<[issue |-> "Response too short or empty", word |-> ""]>>
                ELSE <<>>)
            \o (IF tone_score < 300
                THEN <<[issue |-> "Tone mismatch", word |-> ""]>> ELSE <<>>)
            \o (IF required_tone \in {"professional", "friendly"} /\ prof_score < 200
                THEN <<[issue |-> "Response lacks professionalism markers",
                        word |-> ""]>>
                ELSE <<>>)
    IN  [passed |-> Len(issues) = 0, issues_found |-> issues,
         tone_score |-> tone_score, professionalism_score |-> prof_score]

check_content(content, forbidden_words, required_tone, max_length) ==
    LET tone_score == calculate_tone_score(content, required_tone)
        prof_score == calculate_professionalism_score(content)
        issues ==
            ForbiddenIssues(UNIVERSAL_FORBIDDEN, 1, content, "Forbidden word detected")
            \o ForbiddenIssues(forbidden_words, 1, content, "Client-forbidden word")
            \o (IF content.length > max_length
                THEN <<[issue |-> "Response too long", word |-> ""]>> ELSE <<>>)
            \o (IF content.stripped < 10
                THEN <<[issue |-> "Response too short or empty", word |-> ""]>>
                ELSE <<>>)
            \o (IF tone_score < 300
                THEN <<[issue |-> "Tone mismatch", word |-> ""]>> ELSE <<>>)
            \o (IF required_tone \in {"professional", "friendly"} /\ prof_score < 200
                THEN <<[issue |-> "Response lacks professionalism markers",
                        word |-> ""]>>
                ELSE <<>>)
    IN  [passed |-> Len(issues) = 0, issues_found |-> issues,
         tone_score |-> tone_score, professionalism_score |-> prof_score]

\* defaults of get_content_green_light, in thousandths
min_tone_score_default ==
    100

min_prof_score_default ==
    100

\* variant: a score equal to its threshold does not pass
get_content_green_light_strict(safety_result, min_tone_score, min_prof_score) ==
    IF ~safety_result.passed THEN FALSE
    ELSE IF safety_result.tone_score <= min_tone_score THEN FALSE
    ELSE IF safety_result.professionalism_score <= min_prof_score THEN FALSE
    ELSE TRUE

get_content_green_light(safety_result, min_tone_score, min_prof_score) ==
    IF ~safety_result.passed THEN FALSE
    ELSE IF safety_result.tone_score < min_tone_score THEN FALSE
    ELSE IF safety_result.professionalism_score < min_prof_score THEN FALSE
    ELSE TRUE

(***************************************************************************)
(* POST /webhook/fix (main.py:296-339) with ClientVault.verify_client       *)
(* (scout.py:98-110).  The vault maps an API key to no client, an active    *)
(* client or an inactive one.                                               *)
(***************************************************************************)
ApiKeys ==
    {"amp_1", "amp_2", "amp_3"}

Vaults ==
    [ApiKeys -> {"absent", "active", "inactive"}]

\* vault.verify_client(x_api_key): the body is a single raise
verify_client(vault, api_key) ==
    [kind |-> "raise", exc |-> "NotImplementedError", client |-> "none"]

\* the handler up to its return or raise; an exception that is not an
\* HTTPException leaves the handler and is answered with status 500
receive_error(x_api_key, database_type, vault) ==
    LET v == verify_client(vault, x_api_key)
    IN
    IF v.kind = "raise"
    THEN [response |-> [status |-> 500, body |-> "Internal Server Error"],
          background_tasks |-> <<>>]
    ELSE IF v.client = "none"
    THEN [response |-> [status |-> 401, body |-> "Invalid API key"],
          background_tasks |-> <<>>]
    ELSE IF v.client # "active"
    THEN [response |-> [status |-> 403, body |-> "Client account is inactive"],
          background_tasks |-> <<>>]
    ELSE [response |-> [status |-> 200, body |-> "queued"],
          background_tasks |->
              <<[task |-> "process_fix", client |-> x_api_key,
                 db_type |-> database_type]>>]

InitWebhook ==
    /\ arg \in [op : {"receive_error"}, x_api_key : ApiKeys, vault : Vaults,
                database_type : {"none", "sqlite", "postgresql"}]
    /\ http = NoHttp
    /\ contentRet = NoRet
    /\ valRet = NoRet
    /\ dryRet = NoRet
    /\ gateRet = NoRet
    /\ reqs = IdleReqs
    /\ loopBlocked = FALSE
    /\ calls = NoCalls
    /\ files = NoFiles

ReceiveError ==
    /\ arg.op = "receive_error"
    /\ http = NoHttp
    /\ http' = receive_error(arg.x_api_key, arg.database_type, arg.vault)
    /\ UNCHANGED <<reqs, loopBlocked, arg, valRet, dryRet, gateRet,
                   contentRet, calls, files>>

NextWebhook ==
    ReceiveError

SpecWebhook ==
    InitWebhook /\ [][NextWebhook]_vars

(***************************************************************************)
(* Harness for check_content on texts, word lists, tones and lengths        *)
(***************************************************************************)
ContentPhrases ==
    {"idiot", "IDIOT", "idiotic", "Go Die", "Please", "thank you, sincerely",
     "absolutely awesome!", "great", "!", "lol", "omg", "ASAP"}

\* <<len(content), len(content.strip())>>: the last one is a short text
\* padded with blanks
ContentLengths ==
    {<<5, 5>>, <<50, 50>>, <<2000, 2000>>, <<12, 5>>}

HarnessContents ==
    { [phrases |-> ps, length |-> n[1], stripped |-> n[2]] :
        ps \in {x \in SUBSET ContentPhrases : Cardinality(x) <= MaxPhrases},
        n \in ContentLengths }

InitContent ==
    /\ arg \in [op : {"check_content"}, content : HarnessContents,
                forbidden_words : {<<>>, <<"idiot">>, <<"lol", "ASAP">>},
                required_tone : {"professional", "friendly", "casual",
                                 "technical"},
                max_length : {300, 1000}]
    /\ contentRet = NoRet
    /\ valRet = NoRet
    /\ dryRet = NoRet
    /\ gateRet = NoRet
    /\ reqs = IdleReqs
    /\ loopBlocked = FALSE
    /\ calls = NoCalls
    /\ files = NoFiles
    /\ http = NoHttp

CallCheckContent ==
    /\ arg.op = "check_content"
    /\ contentRet = NoRet
    /\ contentRet' = [kind |-> "return",
                      result |-> check_content(arg.content,
                                     arg.forbidden_words, arg.required_tone,
                                     arg.max_length)]
    /\ UNCHANGED <<reqs, loopBlocked, arg, valRet, dryRet, gateRet, calls,
                   files, http>>

NextContent ==
    CallCheckContent

SpecContent ==
    InitContent /\ [][NextContent]_vars

(***************************************************************************)
(* Harness for get_content_green_light on reports and thresholds            *)
(***************************************************************************)
ContentScores ==
    {0, 99, 100, 199, 200, 300, 1000}

ContentSafetyResults ==
    [passed : BOOLEAN, issues_found : {<<>>}, tone_score : ContentScores,
     professionalism_score : ContentScores]

InitContentGate ==
    /\ arg \in [op : {"get_content_green_light"},
                safety_result : ContentSafetyResults,
                min_tone_score : {0, min_tone_score_default, 300, 1000},
                min_prof_score : {0, min_prof_score_default, 200, 1000}]
    /\ contentRet = NoRet
    /\ valRet = NoRet
    /\ dryRet = NoRet
    /\ gateRet = NoRet
    /\ reqs = IdleReqs
    /\ loopBlocked = FALSE
    /\ calls = NoCalls
    /\ files = NoFiles
    /\ http = NoHttp

CallContentGate ==
    /\ arg.op = "get_content_green_light"
    /\ gateRet = NoRet
    /\ gateRet' = [kind |-> "return",
                   value |-> get_content_green_light(arg.safety_result,
                                 arg.min_tone_score, arg.min_prof_score)]
    /\ UNCHANGED <<reqs, loopBlocked, arg, valRet, dryRet, contentRet, calls,
                   files, http>>

NextContentGate ==
    CallContentGate

SpecContentGate ==
    InitContentGate /\ [][NextContentGate]_vars

(***************************************************************************)
(* Agent registry (agents.py:39-247), the fields main.py and brain.py read  *)
(***************************************************************************)
AgentTypes ==
    {"database_fixer", "customer_support", "sales_agent",
     "appointment_setter", "email_responder"}

get_agent_config(agent_type) ==
    CASE agent_type = "database_fixer" ->
            [outcome_field |-> "fix_applied", success_value |-> "True",
             forbidden_words |-> <<>>, required_tone |-> "technical",
             max_response_length |-> 2000]
      [] agent_type = "customer_support" ->
            [outcome_field |-> "is_resolved", success_value |-> "True",
             forbidden_words |-> <<"I can't help", "not my problem",
                 "figure it out yourself", "stupid", "idiot",
                 "complain to someone else">>,
             required_tone |-> "friendly", max_response_length |-> 500]
      [] agent_type = "sales_agent" ->
            [outcome_field |-> "meeting_booked", success_value |-> "True",
             forbidden_words |-> <<"spam", "buy now or else",
                 "limited time only", "act fast", "you're missing out">>,
             required_tone |-> "professional", max_response_length |-> 500]
      [] agent_type = "appointment_setter" ->
            [outcome_field |-> "appointment_confirmed", success_value |-> "True",
             forbidden_words |-> <<"cancel", "nevermind", "forget it">>,
             required_tone |-> "professional", max_response_length |-> 300]
      [] agent_type = "email_responder" ->
            [outcome_field |-> "email_drafted", success_value |-> "True",
             forbidden_words |-> <<"ASAP", "per my last email", "as I mentioned">>,
             required_tone |-> "professional", max_response_length |-> 600]

\* AIBrain.check_outcome_success: outcome_value is response.get(outcome_field),
\* written as Python would print it ("'true'" is the string, "True" the bool)
check_outcome_success(outcome_value, agent_type) ==
    LET config == get_agent_config(agent_type)
        v == IF outcome_value \in {"'true'", "'True'", "'false'"}
             THEN (IF outcome_value \in {"'true'", "'True'"} THEN "True" ELSE "False")
             ELSE outcome_value
    IN  v = config.success_value

(***************************************************************************)
(* Inputs of the workflows: what the language model and the live database   *)
(* may hand back                                                            *)
(***************************************************************************)
WorkflowFixes ==
    { [code |-> <<"x=1">>, fix_type |-> "python"],
      [code |-> <<"cursor.execute(sql)">>, fix_type |-> "python"],
      [code |-> <<"print(x)">>, fix_type |-> "python"],
      [code |-> <<"eval(s)">>, fix_type |-> "python"],
      [code |-> <<"while True: pass">>, fix_type |-> "python"],
      [code |-> <<"UPDATE", "users", "SET", "active=1", "WHERE", "id=5", ";">>,
       fix_type |-> "sql"],
      [code |-> <<"DELETE", "FROM", "logs", ";">>, fix_type |-> "sql"],
      [code |-> <<"DROP", "TABLE", "IF", "EXISTS", "users", ";">>,
       fix_type |-> "SQL"] }

ReplyTexts ==
    {"FriendlyReply", "ProfessionalReply", "RudeReply", "BlandReply",
     "ShortReply", "LongReply"}

ContentOf(name) ==
    CASE name = "FriendlyReply" ->
            \* "awesome, happy to help! let me know if you need anything."
            [phrases |-> {"awesome", "happy to help", "let me know", "!"},
             length |-> 57, stripped |-> 57]
      [] name = "ProfessionalReply" ->
            [phrases |-> {"thank you", "please", "best regards"},
             length |-> 80, stripped |-> 80]
      [] name = "RudeReply" ->
            [phrases |-> {"idiot", "awesome", "!", "thank you"},
             length |-> 40, stripped |-> 40]
      [] name = "BlandReply" ->
            [phrases |-> {}, length |-> 50, stripped |-> 50]
      [] name = "ShortReply" ->
            [phrases |-> {"!", "please"}, length |-> 9, stripped |-> 7]
      [] name = "LongReply" ->
            [phrases |-> {"thank you", "please", "great", "!"},
             length |-> 700, stripped |-> 700]

\* the keys the processor looks for, in the order of its loop
ResponseFields ==
    <<"response_to_customer", "response_to_lead", "email_body",
      "response_to_client">>

NoFields ==
    [f \in 1..Len(ResponseFields) |-> "absent"]

\* replies of the model: the value under each key is "absent" (no such
\* key), "" (empty string) or a text
ResponseMaps ==
    {NoFields}
    \cup {[NoFields EXCEPT ![f] = v] :
            f \in 1..Len(ResponseFields), v \in ReplyTexts \cup {""}}
    \cup {[NoFields EXCEPT ![1] = "", ![3] = "RudeReply"]}

OutcomeValues ==
    {"True", "False", "'true'", "'false'", "None"}

Responses ==
    [fields : ResponseMaps, outcome : OutcomeValues]

\* for field in [...]: if field in response: response_field = ...; break
RECURSIVE FirstField(_, _)
FirstField(fields, k) ==
    IF k > Len(ResponseFields) THEN "absent"
    ELSE IF fields[k] # "absent" THEN fields[k]
    ELSE FirstField(fields, k + 1)

default_risk_tolerance ==
    "medium"

(***************************************************************************)
(* process_fix (main.py:155-250), one action per awaited call.  A task      *)
(* starts with the arguments its endpoint hands to add_task.                *)
(***************************************************************************)
FixStart(r) ==
    /\ ~loopBlocked
    /\ reqs[r].pc = "idle"
    /\ reqs' = [reqs EXCEPT ![r] = [IdleReq EXCEPT !.pc = "analyze",
                    !.task = "process_fix", !.entry = "/webhook/fix",
                    !.agent_type = "database_fixer"]]
    /\ UNCHANGED <<loopBlocked, arg, valRet, dryRet, gateRet>>
    /\ UNCHANGED <<contentRet, calls, files, http>>

\* analysis = await brain.analyze_error(...) and the two early returns
AnalyzeError(r) ==
    /\ ~loopBlocked
    /\ reqs[r].pc = "analyze"
    /\ \/ reqs' = [reqs EXCEPT ![r].pc = "raised"]
       \/ \E is_fixable \in BOOLEAN, requires_human \in BOOLEAN :
             reqs' = [reqs EXCEPT ![r].pc =
                        IF ~is_fixable THEN "done"
                        ELSE IF requires_human THEN "done"
                        ELSE "get_schema"]
    /\ UNCHANGED <<loopBlocked, arg, valRet, dryRet, gateRet>>
    /\ UNCHANGED <<contentRet, calls, files, http>>

\* schema = await fixer.get_schema(...); it reports failures as text
GetSchema(r) ==
    /\ ~loopBlocked
    /\ reqs[r].pc = "get_schema"
    /\ reqs' = [reqs EXCEPT ![r].pc = "generate"]
    /\ UNCHANGED <<loopBlocked, arg, valRet, dryRet, gateRet>>
    /\ UNCHANGED <<contentRet, calls, files, http>>

\* fix_data = await brain.generate_fix(...)
GenerateFix(r) ==
    /\ ~loopBlocked
    /\ reqs[r].pc = "generate"
    /\ \/ reqs' = [reqs EXCEPT ![r].pc = "raised",
                               ![r].genCount = @ + 1]
       \/ \E fix_data \in WorkflowFixes :
             reqs' = [reqs EXCEPT ![r].pc = "dry_run",
                                  ![r].genCount = @ + 1,
                                  ![r].fix = fix_data]
    /\ UNCHANGED <<loopBlocked, arg, valRet, dryRet, gateRet>>
    /\ UNCHANGED <<contentRet, calls, files, http>>

\* dry_run_result = await safety.dry_run(code=fix_data["code"],
\*                      fix_type=fix_data["fix_type"], schema_sql=...)
DryRun(r) ==
    /\ ~loopBlocked
    /\ reqs[r].pc = "dry_run"
    /\ LET code == reqs[r].fix.code
           fix_type == reqs[r].fix.fix_type
       IN  \E o \in {dry_run(code, fix_type, env) :
                        env \in EnvsFor(validate_code(code, fix_type))} :
             /\ reqs' = [reqs EXCEPT
                    ![r].dryCount = @ + 1,
                    ![r].dryArg = [code |-> code, fix_type |-> fix_type],
                    ![r].dry = o,
                    ![r].pc = CASE o.kind = "raise" -> "raised"
                                [] o.kind = "hang"  -> "hung"
                                [] OTHER            -> "gate"]
             /\ loopBlocked' = (o.kind = "hang")
    /\ UNCHANGED <<arg, valRet, dryRet, gateRet>>
    /\ UNCHANGED <<contentRet, calls, files, http>>

\* variant: a rejected fix is sent back to the generator
GreenLight_retry(r) ==
    /\ ~loopBlocked
    /\ reqs[r].pc = "gate"
    /\ LET g == get_green_light(reqs[r].dry.result, default_risk_tolerance)
       IN  reqs' = [reqs EXCEPT ![r].green = IF g THEN "yes" ELSE "no",
                                ![r].pc = IF g THEN "apply" ELSE "generate"]
    /\ UNCHANGED <<loopBlocked, arg, valRet, dryRet, gateRet>>
    /\ UNCHANGED <<contentRet, calls, files, http>>

\* if not safety.get_green_light(dry_run_result): return
GreenLight(r) ==
    /\ ~loopBlocked
    /\ reqs[r].pc = "gate"
    /\ LET g == get_green_light(reqs[r].dry.result, default_risk_tolerance)
       IN  reqs' = [reqs EXCEPT ![r].green = IF g THEN "yes" ELSE "no",
                                ![r].pc = IF g THEN "apply" ELSE "done"]
    /\ UNCHANGED <<loopBlocked, arg, valRet, dryRet, gateRet>>
    /\ UNCHANGED <<contentRet, calls, files, http>>

\* variant: the fix applied is fetched anew instead of being the one tested
ApplyFix_refetched(r) ==
    /\ ~loopBlocked
    /\ reqs[r].pc = "apply"
    /\ \E success \in BOOLEAN, fix_data \in WorkflowFixes :
          reqs' = [reqs EXCEPT
                     ![r].applyCount = @ + 1,
                     ![r].applyArg = fix_data,
                     ![r].applyOk = success,
                     ![r].pc = IF success THEN "log" ELSE "done"]
    /\ UNCHANGED <<loopBlocked, arg, valRet, dryRet, gateRet>>
    /\ UNCHANGED <<contentRet, calls, files, http>>

\* fix_result = await fixer.apply_fix(code=fix_data["code"],
\*                  fix_type=fix_data["fix_type"], ...); it reports failures
\* in fix_result.success
ApplyFix(r) ==
    /\ ~loopBlocked
    /\ reqs[r].pc = "apply"
    /\ \E success \in BOOLEAN :
          reqs' = [reqs EXCEPT
                     ![r].applyCount = @ + 1,
                     ![r].applyArg = [code |-> reqs[r].fix.code,
                                      fix_type |-> reqs[r].fix.fix_type],
                     ![r].applyOk = success,
                     ![r].pc = IF success THEN "log" ELSE "done"]
    /\ UNCHANGED <<loopBlocked, arg, valRet, dryRet, gateRet>>
    /\ UNCHANGED <<contentRet, calls, files, http>>

\* billing_record = await billing.log_success(...)
LogSuccess(r) ==
    /\ ~loopBlocked
    /\ reqs[r].pc = "log"
    /\ reqs' = [reqs EXCEPT ![r].billed = @ + 1, ![r].pc = "done"]
    /\ UNCHANGED <<loopBlocked, arg, valRet, dryRet, gateRet>>
    /\ UNCHANGED <<contentRet, calls, files, http>>

(***************************************************************************)
(* process_multi_agent_request (main.py:444-542)                            *)
(***************************************************************************)
\* the endpoints that schedule process_multi_agent_request and the
\* agent_type each passes; /webhook/universal passes any registered type
EndpointAgents ==
    { <<"/webhook/support", "customer_support">>,
      <<"/webhook/sales", "sales_agent">>,
      <<"/webhook/email", "email_responder">>,
      <<"/webhook/appointment", "appointment_setter">> }
    \cup { <<"/webhook/universal", a>> : a \in AgentTypes }

MultiStart(r) ==
    /\ ~loopBlocked
    /\ reqs[r].pc = "idle"
    /\ \E ea \in EndpointAgents :
          reqs' = [reqs EXCEPT ![r] = [IdleReq EXCEPT !.pc = "m_request",
                      !.task = "process_multi_agent_request",
                      !.entry = ea[1], !.agent_type = ea[2]]]
    /\ UNCHANGED <<loopBlocked, arg, valRet, dryRet, gateRet>>
    /\ UNCHANGED <<contentRet, calls, files, http>>

\* steps 2 and 3 of process_multi_agent_request on the reply of the model:
\* the task record when the next awaited call is reached
AfterResponse(req, response) ==
    LET agent_type == req.agent_type
        config == get_agent_config(agent_type)
        response_field == FirstField(response.fields, 1)
        doCheck == /\ agent_type # "database_fixer"
                   /\ response_field \notin {"absent", ""}
        green == get_content_green_light(
                     check_content(ContentOf(response_field),
                                   config.forbidden_words,
                                   config.required_tone,
                                   config.max_response_length),
                     min_tone_score_default, min_prof_score_default)
        is_success == check_outcome_success(response.outcome, agent_type)
    IN  [req EXCEPT
            !.reply = response_field,
            !.checked = IF ~doCheck THEN "not_run"
                        ELSE IF green THEN "passed" ELSE "failed",
            !.pc = IF doCheck /\ ~green THEN "done"
                   ELSE IF ~is_success THEN "done"
                   ELSE "m_log"]

\* response = await brain.process_request(...), then steps 2 and 3 up to
\* the next awaited call
MultiResponse(r) ==
    /\ ~loopBlocked
    /\ reqs[r].pc = "m_request"
    /\ \/ reqs' = [reqs EXCEPT ![r].pc = "raised"]
       \/ \E after \in {AfterResponse(reqs[r], response) :
                            response \in Responses} :
             reqs' = [reqs EXCEPT ![r] = after]
    /\ UNCHANGED <<loopBlocked, arg, valRet, dryRet, gateRet>>
    /\ UNCHANGED <<contentRet, calls, files, http>>

\* billing_record = await billing.log_success(...)
MultiLogSuccess(r) ==
    /\ ~loopBlocked
    /\ reqs[r].pc = "m_log"
    /\ reqs' = [reqs EXCEPT ![r].billed = @ + 1, ![r].pc = "m_invoice"]
    /\ UNCHANGED <<loopBlocked, arg, valRet, dryRet, gateRet>>
    /\ UNCHANGED <<contentRet, calls, files, http>>

\* payment_link = await billing.create_now_invoice(...)
MultiInvoice(r) ==
    /\ ~loopBlocked
    /\ reqs[r].pc = "m_invoice"
    /\ reqs' = [reqs EXCEPT ![r].invoiced = @ + 1, ![r].pc = "done"]
    /\ UNCHANGED <<loopBlocked, arg, valRet, dryRet, gateRet>>
    /\ UNCHANGED <<contentRet, calls, files, http>>

Init ==
    /\ reqs = IdleReqs
    /\ loopBlocked = FALSE
    /\ contentRet = NoRet
    /\ calls = NoCalls
    /\ files = NoFiles
    /\ http = NoHttp
    /\ arg = NoArg
    /\ valRet = NoRet
    /\ dryRet = NoRet
    /\ gateRet = NoRet

Next ==
    \E r \in 1..MaxReq :
        \/ FixStart(r)
        \/ AnalyzeError(r)
        \/ GetSchema(r)
        \/ GenerateFix(r)
        \/ DryRun(r)
        \/ GreenLight(r)
        \/ ApplyFix(r)
        \/ LogSuccess(r)
        \/ MultiStart(r)
        \/ MultiResponse(r)
        \/ MultiLogSuccess(r)
        \/ MultiInvoice(r)

Spec ==
    Init /\ [][Next]_vars

(***************************************************************************)
(* Properties                                                               *)
(***************************************************************************)
FixTasks ==
    {r \in 1..MaxReq : reqs[r].task = "process_fix"}

MultiTasks ==
    {r \in 1..MaxReq : reqs[r].task = "process_multi_agent_request"}

\* the order LOW < MEDIUM < HIGH < BLOCKED as the specification states it
Rank(level) ==
    CASE level = "low" -> 0 [] level = "medium" -> 1
      [] level = "high" -> 2 [] level = "blocked" -> 3

\* C1: in process_fix, apply_fix and log_success happen only after
\* get_green_light returned true for the dry run of the generated fix (a dry
\* run that returned a passing report within the default tolerance);
\* apply_fix receives the code and fix_type that dry_run received; and
\* log_success happens only after apply_fix reported success.
C1_ApplyAndBillOnlyAfterGreenLight ==
    \A r \in FixTasks :
        /\ reqs[r].applyCount > 0 =>
              /\ reqs[r].green = "yes"
              /\ reqs[r].dryCount > 0
              /\ reqs[r].dry.kind = "return"
              /\ reqs[r].dry.result.passed
              /\ Rank(reqs[r].dry.result.risk_level) <= Rank("medium")
              /\ reqs[r].dryArg = reqs[r].fix
              /\ reqs[r].applyArg = reqs[r].dryArg
        /\ reqs[r].billed > 0 =>
              /\ reqs[r].applyCount > 0
              /\ reqs[r].applyOk

C1_Witness ==
    \E r \in FixTasks :
        /\ reqs[r].billed = 1
        /\ reqs[r].applyArg = reqs[r].dryArg
        /\ reqs[r].green = "yes"

\* C2: in process_multi_agent_request, for every agent type other than
\* database_fixer, log_success and create_now_invoice are reached only if
\* check_content ran on the reply and get_content_green_light returned true.
C2_BilledOnlyIfContentApproved ==
    \A r \in MultiTasks :
        (reqs[r].agent_type # "database_fixer"
            /\ (reqs[r].billed > 0 \/ reqs[r].invoiced > 0))
        => reqs[r].checked = "passed"

C4_ApprovalOnlyIfEveryStagePassed ==
    (gateRet.kind = "return" /\ arg.op = "dry_run") =>
        (gateRet.value =>
            /\ valRet.kind = "return"
            /\ valRet.safe
            /\ valRet.risk # "blocked"
            /\ dryRet.kind = "return"
            /\ dryRet.sandbox = "ok"
            /\ dryRet.result.rows_affected <= max_rows_affected)

C4_Witness ==
    /\ arg.op = "dry_run"
    /\ gateRet.kind = "return"
    /\ gateRet.value
    /\ dryRet.sandbox = "ok"

\* C5: within one process_fix request generate_fix and dry_run are each
\* invoked at most once, a fix whose dry run did not pass is never applied
\* or billed, and once get_green_light has rejected the request nothing
\* about the request changes any more.
C5_NoStepAfterRejection ==
    [][\A r \in 1..MaxReq :
          /\ reqs'[r].genCount <= 1
          /\ reqs'[r].dryCount <= 1
          /\ (reqs'[r].dry.kind = "return" /\ ~reqs'[r].dry.result.passed)
                => (reqs'[r].applyCount = 0 /\ reqs'[r].billed = 0)
          /\ (reqs[r].task = "process_fix" /\ reqs[r].green = "no")
                => reqs'[r] = reqs[r]]_vars

C5_Witness ==
    \E r \in FixTasks :
        /\ reqs[r].green = "no"
        /\ reqs[r].pc = "done"
        /\ reqs[r].genCount = 1
        /\ reqs[r].dryCount = 1

\* C6: get_green_light returns true iff result.passed and
\* result.risk_level <= risk_tolerance under LOW < MEDIUM < HIGH < BLOCKED.
C6_GreenLightIffPassedAndWithinTolerance ==
    (gateRet.kind = "return" /\ arg.op = "get_green_light") =>
        (gateRet.value <=>
            (arg.result.passed
             /\ Rank(arg.result.risk_level) <= Rank(arg.risk_tolerance)))

C6_Witness ==
    /\ arg.op = "get_green_light"
    /\ gateRet.kind = "return"
    /\ gateRet.value
    /\ arg.result.risk_level = "high"
    /\ arg.risk_tolerance = "high"

\* C7: get_green_light returns false for every SafetyResult whose risk_level
\* is BLOCKED, whatever the tolerance and whatever passed is.
C7_BlockedNeverApproved ==
    (gateRet.kind = "return" /\ arg.op = "get_green_light"
        /\ arg.result.risk_level = "blocked")
    => ~gateRet.value

\* an UPDATE ... SET statement with no WHERE inside that same statement
HasUpdateWithoutWhere(code) ==
    LET statements == SplitStatements(code, <<>>)
    IN  \E k \in 1..Len(statements) :
            LET st == statements[k]
            IN  /\ \E i \in 1..Len(st) :
                      /\ Upper(st[i]) = "UPDATE"
                      /\ i + 2 <= Len(st)
                      /\ Upper(st[i+2]) = "SET"
                /\ \A i \in 1..Len(st) : Upper(st[i]) # "WHERE"

\* C8: validate_code(code, "sql") returns safe=false with risk BLOCKED for
\* every text that contains an UPDATE ... SET statement with no WHERE inside
\* that statement, also when another statement of the text contains WHERE.
C8_UpdateWithoutWhereBlocked ==
    (valRet # NoRet /\ arg.op = "validate_code" /\ arg.fix_type = "sql"
        /\ HasUpdateWithoutWhere(arg.code))
    => (valRet.kind = "return" /\ ~valRet.safe /\ valRet.risk = "blocked")

\* C9: "DROP TABLE users;" is blocked and "DROP TABLE IF EXISTS users;" is
\* returned as safe by validate_code(code, "sql").
C9_DropTableBlockedUnlessIfExists ==
    (valRet # NoRet /\ arg.op = "validate_code" /\ arg.fix_type = "sql") =>
        /\ arg.code = <<"DROP", "TABLE", "users", ";">> =>
              (valRet.kind = "return" /\ ~valRet.safe
                  /\ valRet.risk = "blocked")
        /\ arg.code = <<"DROP", "TABLE", "IF", "EXISTS", "users", ";">> =>
              (valRet.kind = "return" /\ valRet.safe)

\* no entry of the SQL block list applies to the text: none of the
\* compiled patterns matches and it has no UPDATE without WHERE
NoBlocklistEntry(code) ==
    /\ \A k \in 1..Len(BLOCKED_PATTERNS) :
          ~PatternMatches(BLOCKED_PATTERNS[k], code)
    /\ ~HasUpdateWithoutWhere(code)
    /\ ~(InUpper("UPDATE", code) /\ ~InUpper("WHERE", code))

\* the maximum of the triggered rules
EscalatedRisk(code) ==
    IF InUpper("DROP", code) THEN "high"
    ELSE IF InUpper("DELETE", code) \/ InUpper("ALTER", code) THEN "medium"
    ELSE "low"

\* C10: for SQL code that no block list entry matches, the risk returned by
\* validate_code is the maximum of the triggered rules (DELETE medium, DROP
\* high, ALTER medium, none low).
C10_RiskIsMaximumOfTriggeredRules ==
    (valRet # NoRet /\ arg.op = "validate_code" /\ arg.fix_type = "sql"
        /\ NoBlocklistEntry(arg.code))
    => (valRet.kind = "return" /\ valRet.safe
           /\ valRet.risk = EscalatedRisk(arg.code))

\* C11: dry_run validates first; nothing is set up before validate_code
\* has answered, and when the answer is unsafe dry_run returns passed=false
\* with risk BLOCKED, having created no temporary file, opened no
\* connection and executed no part of the code ("DELETE FROM logs;" is
\* such a code).
C11_UnsafeShortCircuits ==
    (arg.op = "dry_run" /\ dryRet # NoRet) =>
        /\ (valRet.kind = "raise" \/ ~valRet.safe) =>
              /\ dryRet.tmp = "none"
              /\ dryRet.conn = "none"
              /\ dryRet.sandbox = "not_run"
              /\ dryRet.effect.executed = 0
        /\ (valRet.kind = "return" /\ ~valRet.safe) =>
              /\ dryRet.kind = "return"
              /\ ~dryRet.result.passed
              /\ dryRet.result.risk_level = "blocked"
        /\ (arg.code = <<"DELETE", "FROM", "logs", ";">> /\ arg.fix_type = "sql")
              => (valRet.kind = "return" /\ ~valRet.safe)

C11_Witness ==
    /\ arg.op = "dry_run"
    /\ arg.code = <<"DELETE", "FROM", "logs", ";">>
    /\ arg.fix_type = "sql"
    /\ dryRet.kind = "return"
    /\ dryRet.result.risk_level = "blocked"
    /\ dryRet.tmp = "none"

\* C12: when dry_run is over, by return or by exception, the temporary
\* file it created is gone and its connection is closed.
C12_NoResourceOutlivesTheCall ==
    (arg.op = "dry_run" /\ dryRet.kind \in {"return", "raise"}) =>
        /\ dryRet.tmp \in {"none", "removed"}
        /\ dryRet.conn \in {"none", "closed"}

\* the count the claim describes: each statement's rowcount, added only
\* when positive
ExpectedRows(code, env) ==
    Len(SplitStatements(code, <<>>))
        * (IF env.rowcount > 0 THEN env.rowcount ELSE 0)

\* the sandbox can be set up and no statement fails in it
RunsCleanly(env) ==
    /\ env.tmp = "ok"
    /\ env.connect = "ok"
    /\ env.schema # "err"
    /\ env.failAt = 0

\* C13: for sql code that is not rejected statically and whose statements
\* all execute without error, dry_run returns a report whose rows_affected
\* is the sum of the positive rowcounts, with passed=false and risk HIGH
\* when that sum exceeds max_rows_affected and passed=true otherwise.
C13_RowCapDecidesAfterAllStatements ==
    (arg.op = "dry_run" /\ dryRet # NoRet /\ arg.fix_type = "sql"
        /\ ~(valRet.kind = "return" /\ ~valRet.safe)
        /\ RunsCleanly(arg.env))
    => /\ dryRet.kind = "return"
       /\ dryRet.result.rows_affected = ExpectedRows(arg.code, arg.env)
       /\ dryRet.effect.executed = Len(SplitStatements(arg.code, <<>>))
       /\ IF ExpectedRows(arg.code, arg.env) > max_rows_affected
          THEN ~dryRet.result.passed /\ dryRet.result.risk_level = "high"
          ELSE dryRet.result.passed

\* C14: when seeding or executing raised an exception inside the sandbox,
\* dry_run returns passed=false with risk HIGH and a message that carries
\* the exception's text.
C14_ExecutionFailureIsReportedHigh ==
    (arg.op = "dry_run" /\ dryRet # NoRet /\ dryRet.effect.exc # "") =>
        /\ dryRet.kind = "return"
        /\ ~dryRet.result.passed
        /\ dryRet.result.risk_level = "high"
        /\ dryRet.result.message = FailureMessage(dryRet.effect.exc)

\* C15: dry_run never propagates an exception to its caller.
C15_NeverRaises ==
    (arg.op = "dry_run" /\ dryRet # NoRet) => dryRet.kind # "raise"

\* C16: a passing report carries the risk validate_code returned and the
\* number of rows the code changed in the sandbox; and the single statement
\* "UPDATE users SET active=1 WHERE id=5;" against a seeded users table with
\* one matching row yields passed=true, risk LOW, rows_affected=1.
C16_PassingReportCarriesRiskAndRows ==
    (arg.op = "dry_run" /\ dryRet # NoRet) =>
        /\ (dryRet.kind = "return" /\ dryRet.result.passed) =>
              /\ dryRet.result.risk_level = valRet.risk
              /\ dryRet.result.rows_affected = dryRet.effect.changed
        /\ (arg.code = <<"UPDATE", "users", "SET", "active=1", "WHERE",
                         "id=5", ";">>
              /\ arg.fix_type = "sql" /\ arg.env = SeededEnv) =>
              /\ dryRet.kind = "return"
              /\ dryRet.result.passed
              /\ dryRet.result.risk_level = "low"
              /\ dryRet.result.rows_affected = 1

\* C17: every dry_run call comes to an end.
C17_EveryCallReturns ==
    (arg.op = "dry_run") ~> (dryRet.kind \in {"return", "raise"})

\* C19: for code that validate_code accepts, the dry run writes to no
\* file other than its own temporary database.
C19_OnlyTheTemporaryDatabaseIsWritten ==
    (arg.op = "dry_run" /\ dryRet # NoRet
        /\ valRet.kind = "return" /\ valRet.safe)
    => ~dryRet.effect.persistent

\* a call that holds a temporary database
HoldsSandbox(i) ==
    calls[i].pc \in {"connect", "exec", "finally"}

\* C18: with several dry_run calls in flight, each call has a temporary
\* file of its own and its connection is on that file, and the lines it
\* executed, the rows it counted and its report are those of the same call
\* made alone, under every interleaving.
C18_ConcurrentCallsAreIsolated ==
    calls # NoCalls =>
        \A i \in 1..MaxCalls :
            /\ HoldsSandbox(i) =>
                  /\ files[calls[i].path].exists
                  /\ \A j \in (1..MaxCalls) \ {i} :
                        HoldsSandbox(j) => calls[j].path # calls[i].path
            /\ calls[i].pc \in {"exec", "finally"} =>
                  calls[i].conn = calls[i].path
            /\ calls[i].pc = "done" =>
                  calls[i].out = dry_run(calls[i].code, calls[i].fix_type,
                                         DefaultEnv)

C18_Witness ==
    /\ calls # NoCalls
    /\ \E i \in 1..MaxCalls : \E j \in (1..MaxCalls) \ {i} :
          /\ calls[i].pc = "finally"
          /\ calls[j].pc = "finally"
          /\ calls[i].effect.changed = 1
          /\ calls[j].effect.changed = 1
          /\ files[calls[i].path].table
          /\ files[calls[j].path].table

\* the written forms, among the phrases of the texts, that contain an entry
\* of UNIVERSAL_FORBIDDEN when case is ignored
WrittenFormsContaining(w) ==
    CASE w = "idiot"  -> {"idiot", "IDIOT", "idiotic"}
      [] w = "go die" -> {"go die", "Go Die"}
      [] OTHER        -> {w}

\* C20: when the text contains an entry of UNIVERSAL_FORBIDDEN, in any
\* case and also inside a longer word, check_content returns passed=false
\* and an issue naming that entry, whatever forbidden_words, required_tone
\* and max_length are and whatever the two scores are.
C20_UniversalForbiddenAlwaysFails ==
    (arg.op = "check_content" /\ contentRet # NoRet) =>
        \A k \in 1..Len(UNIVERSAL_FORBIDDEN) :
            (\E q \in arg.content.phrases :
                 q \in WrittenFormsContaining(UNIVERSAL_FORBIDDEN[k]))
            => /\ ~contentRet.result.passed
               /\ \E i \in 1..Len(contentRet.result.issues_found) :
                     contentRet.result.issues_found[i] =
                         [issue |-> "Forbidden word detected",
                          word |-> UNIVERSAL_FORBIDDEN[k]]

C20_Witness ==
    /\ arg.op = "check_content"
    /\ contentRet # NoRet
    /\ arg.content.phrases = {"IDIOT", "Please"}
    /\ arg.required_tone = "professional"
    /\ contentRet.result.tone_score >= 300
    /\ contentRet.result.professionalism_score >= 200
    /\ ~contentRet.result.passed
    /\ Len(contentRet.result.issues_found) = 1

\* the lower-case words and phrases that a written phrase of the texts
\* contains when case is ignored
WordsIn(q) ==
    CASE q \in {"idiot", "IDIOT", "idiotic"} -> {"idiot"}
      [] q = "Go Die" -> {"go die"}
      [] q = "Please" -> {"please"}
      [] q = "thank you, sincerely" -> {"thank you", "sincerely"}
      [] q = "absolutely awesome!" -> {"absolutely", "awesome", "!"}
      [] q = "ASAP" -> {"asap"}
      [] OTHER -> {q}

\* the entries of a list that occur in a text, case ignored
Found(list, content) ==
    {i \in 1..Len(list) :
        \E q \in content.phrases : Lower(list[i]) \in WordsIn(q)}

\* C21: check_content returns passed=true exactly when issues_found is
\* empty, and that is exactly when no entry of UNIVERSAL_FORBIDDEN and no
\* client forbidden word occurs in the text (case ignored), the text is
\* not longer than max_length, its stripped form has at least 10
\* characters, tone_score is at least 0.3, and, for the tones
\* professional and friendly, professionalism_score is at least 0.2.
C21_PassedIffNoIssue ==
    (arg.op = "check_content" /\ contentRet # NoRet) =>
        LET res == contentRet.result
        IN  /\ res.passed <=> (Len(res.issues_found) = 0)
            /\ res.passed <=>
                  /\ Found(UNIVERSAL_FORBIDDEN, arg.content) = {}
                  /\ Found(arg.forbidden_words, arg.content) = {}
                  /\ ~(arg.content.length > arg.max_length)
                  /\ ~(arg.content.stripped < 10)
                  /\ ~(res.tone_score < 300)
                  /\ ~(arg.required_tone \in {"professional", "friendly"}
                        /\ res.professionalism_score < 200)

\* a long text whose only fault is its length
C21_Witness ==
    /\ arg.op = "check_content"
    /\ contentRet # NoRet
    /\ arg.content.phrases = {"Please"}
    /\ arg.content.length = 2000
    /\ arg.max_length = 1000
    /\ arg.required_tone = "professional"
    /\ ~contentRet.result.passed
    /\ Len(contentRet.result.issues_found) = 1

\* C22: get_content_green_light returns true exactly when the report has
\* passed=true, tone_score >= min_tone_score and professionalism_score >=
\* min_prof_score, for every report and every pair of thresholds.
C22_ContentGreenLightIffPassedAndScores ==
    (arg.op = "get_content_green_light" /\ gateRet # NoRet) =>
        (gateRet.value <=>
            /\ arg.safety_result.passed
            /\ arg.safety_result.tone_score >= arg.min_tone_score
            /\ arg.safety_result.professionalism_score >= arg.min_prof_score)

\* both scores sit exactly on the default thresholds
C22_Witness ==
    /\ arg.op = "get_content_green_light"
    /\ gateRet # NoRet
    /\ arg.safety_result.passed
    /\ arg.min_tone_score = min_tone_score_default
    /\ arg.min_prof_score = min_prof_score_default
    /\ arg.safety_result.tone_score = arg.min_tone_score
    /\ arg.safety_result.professionalism_score = arg.min_prof_score
    /\ gateRet.value

\* m / max(3, 0.3 * n) cut at 1, in thousandths (0.3 * n is 3n/10)
ToneFormula(m, n) ==
    LET d == IF 3 * n > 30 THEN 3 * n ELSE 30
        q == (m * 10000) \div d
    IN  IF q > 1000 THEN 1000 ELSE q

\* C25: tone_score is min(1, m / max(3, 0.3 * |L|)) where m counts the
\* indicators of L that occur in the lower-cased text and L is
\* PROFESSIONAL_INDICATORS for the tone professional and
\* FRIENDLY_INDICATORS for every other tone; it lies in [0, 1], and the
\* tone issue is raised exactly when it is below 0.3.
C25_ToneScore ==
    (arg.op = "check_content" /\ contentRet # NoRet) =>
        LET res == contentRet.result
            L == IF arg.required_tone = "professional"
                 THEN PROFESSIONAL_INDICATORS ELSE FRIENDLY_INDICATORS
            m == Cardinality(Found(L, arg.content))
        IN  /\ res.tone_score = ToneFormula(m, Len(L))
            /\ res.tone_score >= 0
            /\ res.tone_score <= 1000
            /\ (\E i \in 1..Len(res.issues_found) :
                    res.issues_found[i].issue = "Tone mismatch")
               <=> (res.tone_score < 300)

\* one professional indicator in a text judged as professional: 1/3
C25_Witness ==
    /\ arg.op = "check_content"
    /\ contentRet # NoRet
    /\ arg.required_tone = "professional"
    /\ arg.content.phrases = {"Please", "great"}
    /\ contentRet.result.tone_score = 333

\* four friendly indicators in a text judged as casual: 4/3 is cut to 1
C25_WitnessCut ==
    /\ arg.op = "check_content"
    /\ contentRet # NoRet
    /\ arg.required_tone = "casual"
    /\ arg.content.phrases = {"absolutely awesome!", "great"}
    /\ contentRet.result.tone_score = 1000

\* C26: professionalism_score is 0.5 + 0.2 p - 0.3 n clipped to [0, 1],
\* p the professional indicators and n the informal words that occur in
\* the text; the professionalism issue is raised exactly when the tone is
\* professional or friendly and the score is below 0.2.
C26_ProfessionalismScore ==
    (arg.op = "check_content" /\ contentRet # NoRet) =>
        LET res == contentRet.result
            p == Cardinality(Found(PROFESSIONAL_INDICATORS, arg.content))
            n == Cardinality(Found(informal, arg.content))
            raw == 500 + 200 * p - 300 * n
        IN  /\ res.professionalism_score =
                  (IF raw < 0 THEN 0 ELSE IF raw > 1000 THEN 1000 ELSE raw)
            /\ (\E i \in 1..Len(res.issues_found) :
                    res.issues_found[i].issue =
                        "Response lacks professionalism markers")
               <=> (/\ arg.required_tone \in {"professional", "friendly"}
                    /\ res.professionalism_score < 200)

\* two informal words and nothing else: -0.1 is raised to 0 and, the tone
\* being friendly, the issue is raised
C26_Witness ==
    /\ arg.op = "check_content"
    /\ contentRet # NoRet
    /\ arg.required_tone = "friendly"
    /\ arg.content.phrases = {"lol", "omg"}
    /\ contentRet.result.professionalism_score = 0
    /\ \E i \in 1..Len(contentRet.result.issues_found) :
          contentRet.result.issues_found[i].issue =
              "Response lacks professionalism markers"

\* script lines that use something other than the names of
\* restricted_globals, conn and cursor
OutsideAllowList ==
    {"print(x)", "import os", "open('f')",
     "().__class__.__base__.__subclasses__()[k].__init__.__globals__['system'](c)"}

\* C23: in a script-kind dry run only the allow-listed builtins, conn and
\* cursor can be used: a script that validate_code accepts and whose
\* first line uses anything else raises in the sandbox, so the report is
\* passed=false with risk HIGH and nothing outside the allow-list has run.
C23_OnlyAllowListedNamesReachable ==
    (/\ arg.op = "dry_run" /\ dryRet # NoRet
     /\ arg.fix_type # "sql"
     /\ valRet.kind = "return" /\ valRet.safe
     /\ arg.env.tmp = "ok" /\ arg.env.connect = "ok"
     /\ arg.env.schema # "err"
     /\ arg.code[1] \in OutsideAllowList)
    => /\ dryRet.kind = "return"
       /\ ~dryRet.result.passed
       /\ dryRet.result.risk_level = "high"
       /\ ~dryRet.effect.outside

\* C24: POST /webhook/fix queues exactly one process_fix task and answers
\* "queued" exactly when the API key belongs to an active client; an
\* unknown key is answered 401 and the key of an inactive client 403, and
\* in both cases nothing is queued.
C24_WebhookQueuesOnlyForActiveClients ==
    (arg.op = "receive_error" /\ http # NoHttp) =>
        LET client == arg.vault[arg.x_api_key]
            queued == /\ http.response.body = "queued"
                      /\ Len(http.background_tasks) = 1
                      /\ http.background_tasks[1].task = "process_fix"
        IN  /\ queued <=> (client = "active")
            /\ (client = "absent") =>
                  (http.response.status = 401 /\ http.background_tasks = <<>>)
            /\ (client = "inactive") =>
                  (http.response.status = 403 /\ http.background_tasks = <<>>)

\* C27: an sql artifact whose text contains DROP is never approved under
\* the default tolerance MEDIUM: dry_run returns a report for it whose
\* risk is BLOCKED or at least HIGH, whatever else the text contains.
C27_DropIsBlockedOrHigh ==
    (/\ arg.op = "dry_run" /\ dryRet # NoRet
     /\ arg.fix_type = "sql"
     /\ \E i \in 1..Len(arg.code) : IsSubstr("DROP", U(arg.code, i)))
    => /\ dryRet.kind = "return"
       /\ dryRet.result.risk_level \in {"blocked", "high"}
       /\ ~get_green_light(dryRet.result, default_risk_tolerance)

\* C28: a report that dry_run returns with risk BLOCKED has passed=false
\* and rows_affected=0, so get_green_light approves it under no
\* tolerance, BLOCKED included.
C28_BlockedReportNeverPasses ==
    (arg.op = "dry_run" /\ dryRet # NoRet /\ dryRet.kind = "return"
        /\ dryRet.result.risk_level = "blocked")
    => /\ ~dryRet.result.passed
       /\ dryRet.result.rows_affected = 0
       /\ \A t \in RiskLevel : ~get_green_light(dryRet.result, t)
       /\ (gateRet # NoRet) => ~gateRet.value

C28_Witness ==
    /\ arg.op = "dry_run"
    /\ dryRet.kind = "return"
    /\ dryRet.result.risk_level = "blocked"
    /\ gateRet # NoRet
    /\ gateRet.risk_tolerance = "blocked"
    /\ ~gateRet.value

\* text made of SQL tokens only
IsSqlText(code) ==
    \A i \in 1..Len(code) : code[i] \in SqlTokens

\* C29: under every fix_type other than exactly "sql" the artifact is
\* handled as a script: validate_code consults the script patterns only
\* and returns risk LOW when none matches, and dry_run hands the text to
\* exec.  SQL text under such a label is therefore accepted by
\* validate_code with risk LOW, whatever the SQL block list says, and
\* fails in the sandbox as a script that does not compile.
C29_OtherKindsAreScripts ==
    (arg.op = "dry_run" /\ dryRet # NoRet /\ arg.fix_type # "sql") =>
        /\ valRet.kind = "return"
        /\ valRet.safe <=>
              ~\E k \in 1..Len(BLOCKED_PYTHON_PATTERNS) :
                 \E i \in 1..Len(arg.code) :
                    arg.code[i] = PythonPatternLine(BLOCKED_PYTHON_PATTERNS[k])
        /\ valRet.safe => valRet.risk = "low"
        /\ (dryRet.kind # "hang") =>
              dryRet = dry_run(arg.code, "python", arg.env)
        /\ IsSqlText(arg.code) =>
              /\ valRet.safe
              /\ (arg.env.tmp = "ok" /\ arg.env.connect = "ok"
                      /\ arg.env.schema # "err") =>
                    /\ dryRet.kind = "return"
                    /\ ~dryRet.result.passed
                    /\ dryRet.result.risk_level = "high"
                    /\ dryRet.result.message = "Dry run failed: invalid syntax"
                    /\ dryRet.effect.executed = 0

\* a statement the SQL block list rejects, under the label "SQL"
C29_Witness ==
    /\ arg.op = "dry_run"
    /\ arg.fix_type = "SQL"
    /\ arg.code = <<"DELETE", "FROM", "logs", ";">>
    /\ validate_code(arg.code, "sql").kind = "return"
    /\ validate_code(arg.code, "sql").risk = "blocked"
    /\ valRet.kind = "return"
    /\ valRet.safe
    /\ valRet.risk = "low"
    /\ dryRet.kind = "return"
    /\ dryRet.result.message = "Dry run failed: invalid syntax"

\* C30: for a script-kind artifact a passing report always has
\* rows_affected=0 and the max_rows_affected cap is never applied,
\* however many rows the script changed; the cap-exceeded outcome occurs
\* for fix_type "sql" only.
C30_ScriptRowsAreNotCounted ==
    (arg.op = "dry_run" /\ dryRet # NoRet) =>
        /\ (dryRet.sandbox = "cap") => (arg.fix_type = "sql")
        /\ (arg.fix_type # "sql" /\ dryRet.kind = "return") =>
              /\ dryRet.result.message # "Too many rows affected"
              /\ dryRet.result.passed => dryRet.result.rows_affected = 0
              /\ (dryRet.sandbox = "ok") => dryRet.result.passed

\* a script that changes more rows than the cap allows and passes
C30_Witness ==
    /\ arg.op = "dry_run"
    /\ arg.fix_type = "python"
    /\ dryRet.kind = "return"
    /\ dryRet.effect.changed > max_rows_affected
    /\ dryRet.result.passed
    /\ dryRet.result.rows_affected = 0

====
